---- MODULE Spec2Model ----
(***************************************************************************)
(* LocalEGA ingestion worker: the AMQP dispatcher (lega/utils/amqp.py),    *)
(* the ingestion pipeline (lega/ingest.py) and the DB gateway              *)
(* (src/lega/utils/db.py), as one state machine.                           *)
(*                                                                         *)
(* One worker process handles one delivery at a time.  Every step of the   *)
(* handler is an action; `log` records, in order, the calls the handler    *)
(* makes on the broker, the database, the inbox and the vault while it     *)
(* handles the current delivery.                                           *)
(*                                                                         *)
(* Under Spec the broker accepts every publish, ack and reject; what the   *)
(* DB gateway, the header parser and the storage driver raise is chosen    *)
(* nondeterministically at each call.  Deliveries may lack a               *)
(* correlation_id and may carry any body under either content type.        *)
(*                                                                         *)
(* SpecFaults adds the transport faults of the consume loop and of         *)
(* connect(): a dropped connection while consuming, a failing channel      *)
(* open, failing connection attempts under retry().  SpecRouting runs the  *)
(* worker under each setting of the DEFAULT options `error` and            *)
(* `user_error`.  SpecSecret is the sensitive-value resolver of            *)
(* lega/conf (convert_sensitive, get_from_file) on each file system.       *)
(***************************************************************************)
EXTENDS Integers, Sequences, FiniteSets, TLC

\* ------------------------------------------------------------------ bounds
\* Number of deliveries the broker dispatches in one run.
MaxDeliveries == 2
\* The `try` option of the broker section: connection attempts per connect().
Attempts == 2
\* Transport faults the broker and the network inject in one run.
MaxFaults == 3

\* ----------------------------------------------------------- configuration
\* CONF.get('DEFAULT', 'exchange', fallback='ingestion.v1')
DefaultExchange == "ingestion.v1"
\* CONF.get('DEFAULT', 'routing_key'), conventionally 'archived'
DefaultRoutingKey == "archived"
\* The DEFAULT section of the configuration: option name -> value, for the
\* options that are set.
VARIABLE conf
\* CONF.get('DEFAULT', option, fallback=fallback)
ConfGet(option, fallback) == IF option \in DOMAIN conf THEN conf[option] ELSE fallback
\* error_key = CONF.get('DEFAULT', 'error', fallback='error.system')
ErrorKey == ConfGet("error", "error.system")
UserErrorKey_FromError == ConfGet("error", ConfGet("user_error", "error"))
\* user_error_key = CONF.get('DEFAULT', 'user_error', fallback='error')
UserErrorKey == ConfGet("user_error", "error")
\* The second positional argument of publish() in work(): broker.channel()
ChannelObject == "<broker.channel()>"

JSON == "application/json"
PlainText == "text/plain"
ContentTypes == {JSON, PlainText}

\* A delivery's correlation_id property; NoCid is an absent (None) one.
NoCid == ""
CorrelationIds == {"cid-1", "cid-2", NoCid}

\* ------------------------------------------------------- python dictionaries
EmptyDict == [k \in {} |-> ""]
\* d[k] = v
Put(d, k, v) == [x \in (DOMAIN d) \cup {k} |-> IF x = k THEN v ELSE d[x]]
\* d.pop(k, None)
Pop(d, k) == [x \in (DOMAIN d) \ {k} |-> d[x]]

\* Python values a message content can be
Dict(d) == [kind |-> "dict", d |-> d, s |-> ""]
Str(s) == [kind |-> "str", d |-> EmptyDict, s |-> s]
List(s) == [kind |-> "list", d |-> EmptyDict, s |-> s]
Null == [kind |-> "null", d |-> EmptyDict, s |-> ""]

\* `not content` is False
Truthy(c) ==
    CASE c.kind = "dict" -> DOMAIN c.d # {}
      [] c.kind = "str" -> c.s # ""
      [] c.kind = "list" -> c.s # "[]"
      [] OTHER -> FALSE

\* ------------------------------------------------------------ message bodies
BodyMalformed == "{not json"
BodyEmpty == ""
BodyEmptyDict == "{}"
BodyNull == "null"
BodyList == "[1]"
BodyRequest == "{filepath:/a/b.c4gh, user:elixir:alice}"
BodyExtra == "{filepath:/c.c4gh, user:bob, note:n}"
BodyNoUser == "{filepath:/a/b.c4gh}"
Bodies == {BodyMalformed, BodyEmpty, BodyEmptyDict, BodyNull, BodyList,
           BodyRequest, BodyExtra, BodyNoUser}

\* json.loads(body): the parsed value, or ok = FALSE for a JSONDecodeError
JsonLoads(body) ==
    CASE body = BodyRequest ->
            [ok |-> TRUE, value |-> Dict([filepath |-> "/a/b.c4gh", user |-> "elixir:alice"])]
      [] body = BodyExtra ->
            [ok |-> TRUE, value |-> Dict([filepath |-> "/c.c4gh", user |-> "bob", note |-> "n"])]
      [] body = BodyNoUser ->
            [ok |-> TRUE, value |-> Dict([filepath |-> "/a/b.c4gh"])]
      [] body = BodyEmptyDict -> [ok |-> TRUE, value |-> Dict(EmptyDict)]
      [] body = BodyNull -> [ok |-> TRUE, value |-> Null]
      [] body = BodyList -> [ok |-> TRUE, value |-> List(body)]
      [] OTHER -> [ok |-> FALSE, value |-> Str(body)]

\* -------------------------------------------------------------- exceptions
\* isinstance(error, FromUser): NotFoundInInbox is a FromUser subtype, and
\* crypt4gh_to_user_errors turns a header-parser error into a FromUser
FromUserClasses == {"FromUser", "NotFoundInInbox"}
IsFromUser(e) == e \in FromUserClasses
\* What an external collaborator (DB gateway, storage driver) may raise
CollaboratorRaises == {"RejectMessage", "Exception"}

\* ------------------------------------------------------------------ events
EvPublish(c, ex, rk, corr) ==
    [op |-> "publish", content |-> c, exchange |-> ex, routing_key |-> rk,
     correlation_id |-> corr]
EvAck == [op |-> "ack"]
EvReject(rq) == [op |-> "reject", requeue |-> rq]
EvWork == [op |-> "work"]
EvDb(name, fid) == [op |-> name, file_id |-> fid]
EvInbox(name) == [op |-> name]
EvCopy(fid, n) == [op |-> "copy", file_id |-> fid, size |-> n]

\* ------------------------------------------- sensitive values (lega/conf)
\* A configuration value is a string; it is written here as the sequence of its
\* parts, a scheme prefix being one part: 'secret:///run/secrets/mq' is
\* <<"secret://", "/run/secrets/mq">>.
VARIABLES
    fs,            \* the file system: path -> file
    fs0,           \* the file system when convert_sensitive was called
    environ,       \* os.environ: name -> value, for the names that are set
    arg,           \* the `value` convert_sensitive is called with: for the
                   \* worker, the raw `connection` option of the broker section
    res,           \* what convert_sensitive returned
    raised,        \* the exception convert_sensitive raised, "none" when none
    warned,        \* LOG.warning('Could not remove ...') was emitted
    rpc            \* position of the resolver

resolverVars == <<fs, fs0, environ, arg, res, raised, warned, rpc>>

\* Python values of the resolver: None, str, bytes
PyNone == [kind |-> "none", v |-> <<>>]
PyStr(v) == [kind |-> "str", v |-> v]
PyBytes(v) == [kind |-> "bytes", v |-> v]

\* value.startswith(prefix)
StartsWith(a, prefix) == a.kind = "str" /\ Len(a.v) > 0 /\ a.v[1] = prefix
\* value[len(prefix):]
AfterPrefix(a) == Tail(a.v)

MqSecretPath == <<"/run/secrets/mq">>
MqFilePath == <<"/etc/ega/mq">>
Paths == {MqSecretPath, MqFilePath}
Absent == [exists |-> FALSE, readable |-> FALSE, removable |-> FALSE, data |-> <<>>]
\* the files a path can hold: readable or not by this process, in a directory
\* this process can or cannot remove from
FilesAt(path) ==
    {Absent} \cup
    {[exists |-> TRUE, readable |-> r, removable |-> w, data |-> <<"contents of">> \o path] :
        r \in BOOLEAN, w \in BOOLEAN}
FileSystems == {f \in [Paths -> UNION {FilesAt(q) : q \in Paths}] :
                    \A q \in Paths : f[q] \in FilesAt(q)}
FileAt(f, path) == IF path \in DOMAIN f THEN f[path] ELSE Absent
Environs == {[n \in {} |-> <<>>], [n \in {<<"MQ_URI">>} |-> <<"amqp://mq.example">>]}
\* the `connection` option of the broker section, when it is a plain URI
BrokerUri == PyStr(<<"amqps://user:pw@mq.example/vhost">>)
SensitiveValues ==
    {PyNone,
     PyStr(<<>>),
     BrokerUri,
     PyStr(<<"value://", "secret://", "/run/secrets/mq">>),
     PyStr(<<"env://", "MQ_URI">>),
     PyStr(<<"file://", "/etc/ega/mq">>),
     PyStr(<<"file://", "/nowhere">>),
     PyStr(<<"secret://", "/run/secrets/mq">>),
     PyStr(<<"secret://", "/nowhere">>)}

\* the resolver is not called; the `connection` option is a plain URI
ResolverIdle ==
    /\ fs = [q \in Paths |-> Absent]
    /\ fs0 = fs
    /\ environ = [n \in {} |-> <<>>]
    /\ arg = BrokerUri
    /\ res = PyNone
    /\ raised = "none"
    /\ warned = FALSE
    /\ rpc = "idle"

VARIABLES
    pc,            \* position of the worker process
    msg,           \* the delivery being handled
    content,       \* process_request's `content` (work's `data`: same object)
    org_msg,       \* work's `org_msg` dictionary
    cid,           \* the ambient correlation id, _cid
    exc,           \* the exception in flight, "none" when there is none
    workResult,    \* how work() ended for this delivery
    log,           \* calls made while handling this delivery, in order
    files,         \* the files table, indexed by file_id
    errors,        \* the errors table, append-only
    nDeliv,        \* deliveries dispatched so far
    exitcode,      \* process exit code, -1 while running
    conn,          \* AMQPConnection.conn: 0 is None, n > 0 the n-th connection
    connGen,       \* the connection opened last
    pub_channel,   \* AMQPConnection.pub_channel: 0 is None, else its connection
    pull_channel,  \* AMQPConnection.pull_channel: 0 is None, else its connection
    attempt,       \* failed attempts of the connect() call under way
    onFailureCalls,\* calls of the on_failure hook so far
    faults,        \* transport faults injected so far
    prefetch,      \* prefetch_count of the consume channel, 0 is no limit
    buffered,      \* deliveries sent by the broker, not yet handed to the callback
    connection_params, \* AMQPConnection.connection_params, PyNone is None
    fetches        \* calls of fetch_args so far

workerVars == <<pc, msg, content, org_msg, cid, exc, workResult, log, files, errors,
                nDeliv, exitcode, conn, connGen, pub_channel, pull_channel,
                attempt, onFailureCalls, faults, prefetch, buffered, conf,
                connection_params, fetches>>
vars == <<workerVars, resolverVars>>
\* what the worker reads and never writes
confVars == <<conf, resolverVars>>
retryVars == <<attempt, onFailureCalls, faults>>
uriVars == <<connection_params, fetches>>
qosVars == <<prefetch, buffered>>
\* what the handling of a delivery leaves alone
loopVars == <<retryVars, qosVars, confVars, uriVars>>
connVars == <<conn, connGen, pub_channel, pull_channel>>
dbVars == <<files, errors>>

NoMsg == [correlation_id |-> NoCid, content_type |-> PlainText, body |-> BodyEmpty,
          delivery_tag |-> 0]

\* the worker process before consume() is entered
WorkerInit ==
    /\ pc = "start"
    /\ msg = NoMsg
    /\ content = Str(BodyEmpty)
    /\ org_msg = EmptyDict
    /\ cid = NoCid
    /\ exc = "none"
    /\ workResult = "none"
    /\ log = <<>>
    /\ files = <<>>
    /\ errors = <<>>
    /\ nDeliv = 0
    /\ exitcode = -1
    /\ conn = 0
    /\ connGen = 0
    /\ pub_channel = 0
    /\ pull_channel = 0
    /\ attempt = 0
    /\ onFailureCalls = 0
    /\ faults = 0
    /\ prefetch = 0
    /\ buffered = 0
    /\ connection_params = PyNone
    /\ fetches = 0

Init ==
    /\ WorkerInit
    /\ conf = EmptyDict
    /\ ResolverIdle


\* ------------------------------------------------------------- DB gateway
\* The row insert_file creates: status Received, nothing else known yet
NoPath == [vault |-> 0]
NewFileRow(filepath, user_id) ==
    [filepath |-> filepath, user_id |-> user_id, status |-> "Received",
     vault_path |-> NoPath, vault_size |-> 0, header_hex |-> ""]
\* insert_file(filepath, user_id): the table afterwards; the new id is its length
InsertFile(tbl, filepath, user_id) == Append(tbl, NewFileRow(filepath, user_id))
\* mark_in_progress(file_id)
MarkInProgress(tbl, fid) == [tbl EXCEPT ![fid].status = "In progress"]
\* set_info(file_id, vault_path, vault_size, header_hex): status untouched
SetInfo(tbl, fid, target, size, hex) ==
    [tbl EXCEPT ![fid].vault_path = target, ![fid].vault_size = size,
                ![fid].header_hex = hex]
\* set_error(file_id, error): the row insert_error is called with
SetError_AlwaysSystem(fid, e) ==
    [file_id |-> fid, from_user |-> FALSE, hostname |-> "worker", class |-> e]
SetError(fid, e) ==
    [file_id |-> fid, from_user |-> IsFromUser(e), hostname |-> "worker", class |-> e]

\* sanitize_user_id(user): the bare user id
SanitizeUserId(user) ==
    CASE user = "elixir:alice" -> "alice"
      [] OTHER -> user

\* clean_message(content): drops the internal-only fields
InternalFields == {"file_id", "org_msg", "header", "vault_path"}
CleanMessage(d) == [x \in (DOMAIN d) \ InternalFields |-> d[x]]

\* ------------------------------------------------ inbox file, header, vault
\* The bytes get_header returns for the inbox file, and the payload length
Beginning == <<99, 114>>
Header == <<1, 0, 255>>
PayloadSize == 5
HexDigits == <<"0", "1", "2", "3", "4", "5", "6", "7", "8", "9",
               "a", "b", "c", "d", "e", "f">>
\* bytes.hex()
RECURSIVE Hex(_)
Hex(bs) ==
    IF bs = <<>> THEN ""
    ELSE HexDigits[(Head(bs) \div 16) + 1] \o HexDigits[(Head(bs) % 16) + 1]
         \o Hex(Tail(bs))
\* fs.location(file_id)
Location(fid) == [vault |-> fid]

\* ------------------------------------------ convert_sensitive, get_from_file
\* if value is None: return None
ConvertNone ==
    /\ rpc = "call"
    /\ arg.kind = "none"
    /\ res' = PyNone
    /\ rpc' = "returned"
    /\ UNCHANGED <<fs, fs0, environ, arg, raised, warned, workerVars>>

\* if value.startswith('value://'): return value[8:]
ConvertValue ==
    /\ rpc = "call"
    /\ StartsWith(arg, "value://")
    /\ res' = PyStr(AfterPrefix(arg))
    /\ rpc' = "returned"
    /\ UNCHANGED <<fs, fs0, environ, arg, raised, warned, workerVars>>

\* if value.startswith('env://'): os.getenv(value[6:]), ValueError when unset
ConvertEnv ==
    /\ rpc = "call"
    /\ StartsWith(arg, "env://")
    /\ IF AfterPrefix(arg) \in DOMAIN environ
       THEN /\ res' = PyStr(environ[AfterPrefix(arg)])
            /\ rpc' = "returned"
            /\ UNCHANGED raised
       ELSE /\ raised' = "ValueError"
            /\ rpc' = "raised"
            /\ UNCHANGED res
    /\ UNCHANGED <<fs, fs0, environ, arg, warned, workerVars>>

\* if value.startswith('file://'): os.stat(path); get_from_file(path, 'rt')
ConvertFile ==
    /\ rpc = "call"
    /\ StartsWith(arg, "file://")
    /\ LET f == FileAt(fs, AfterPrefix(arg))
       IN  IF ~f.exists
           THEN /\ raised' = "FileNotFoundError"
                /\ rpc' = "raised"
                /\ UNCHANGED res
           ELSE IF f.readable
           THEN /\ res' = PyStr(f.data)
                /\ rpc' = "returned"
                /\ UNCHANGED raised
           ELSE /\ raised' = "ValueError"
                /\ rpc' = "raised"
                /\ UNCHANGED res
    /\ UNCHANGED <<fs, fs0, environ, arg, warned, workerVars>>

\* if value.startswith('secret://'): get_from_file(path, 'rb', remove_after=True)
\* get_from_file, the try block: open and read, or ValueError('Error loading')
ConvertSecret ==
    /\ rpc = "call"
    /\ StartsWith(arg, "secret://")
    /\ LET f == FileAt(fs, AfterPrefix(arg))
       IN  IF f.exists /\ f.readable
           THEN /\ res' = PyBytes(f.data)
                /\ UNCHANGED raised
           ELSE /\ raised' = "ValueError"
                /\ UNCHANGED res
    /\ rpc' = "finally"
    /\ UNCHANGED <<fs, fs0, environ, arg, warned, workerVars>>

\* get_from_file, the finally block: os.remove(filepath), a failure of which is
\* logged; then the return or the raise of the try block takes place
GetFromFileFinally_Keep ==
    /\ rpc = "finally"
    /\ rpc' = IF raised = "none" THEN "returned" ELSE "raised"
    /\ UNCHANGED <<fs, fs0, environ, arg, res, raised, warned, workerVars>>
GetFromFileFinally ==
    /\ rpc = "finally"
    /\ LET path == AfterPrefix(arg)
           f == FileAt(fs, path)
       IN  IF f.exists /\ f.removable
           THEN /\ fs' = [fs EXCEPT ![path] = Absent]
                /\ UNCHANGED warned
           ELSE /\ warned' = TRUE
                /\ UNCHANGED fs
    /\ rpc' = IF raised = "none" THEN "returned" ELSE "raised"
    /\ UNCHANGED <<fs0, environ, arg, res, raised, workerVars>>

\* otherwise the value itself
ConvertPlain ==
    /\ rpc = "call"
    /\ arg.kind = "str"
    /\ \A prefix \in {"value://", "env://", "file://", "secret://"} :
          ~StartsWith(arg, prefix)
    /\ res' = arg
    /\ rpc' = "returned"
    /\ UNCHANGED <<fs, fs0, environ, arg, raised, warned, workerVars>>


\* ----------------------------------------------- AMQPConnection.fetch_args
\* connect(): if not self.connection_params: self.fetch_args(), which calls
\* CONF.getsensitive(conf_section, 'connection')
FetchArgsCall_Always ==
    /\ pc = "start"
    /\ conn = 0
    /\ fetches < 2
    /\ rpc = "idle"
    /\ rpc' = "call"
    /\ fs0' = fs
    /\ fetches' = fetches + 1
    /\ pc' = "fetch_args"
    /\ UNCHANGED <<msg, content, org_msg, cid, exc, workResult, log, files, errors,
                   nDeliv, exitcode, connVars, retryVars, qosVars, conf,
                   connection_params, fs, environ, arg, res, raised, warned>>
FetchArgsCall ==
    /\ pc = "start"
    /\ conn = 0
    /\ connection_params = PyNone
    /\ rpc = "idle"
    /\ rpc' = "call"
    /\ fs0' = fs
    /\ fetches' = fetches + 1
    /\ pc' = "fetch_args"
    /\ UNCHANGED <<msg, content, org_msg, cid, exc, workResult, log, files, errors,
                   nDeliv, exitcode, connVars, retryVars, qosVars, conf,
                   connection_params, fs, environ, arg, res, raised, warned>>

\* fetch_args(), getsensitive has returned: bytes are decoded; the parameters are
\* kept in self.connection_params.  None has no startswith: AttributeError.
\* An empty URI is kept too, and no connection can be opened with it.
FetchArgsReturn ==
    /\ pc = "fetch_args"
    /\ rpc = "returned"
    /\ rpc' = "idle"
    /\ IF res.kind = "none"
       THEN /\ exc' = "AttributeError"
            /\ pc' = "fatal"
            /\ UNCHANGED connection_params
       ELSE /\ connection_params' = PyStr(res.v)
            /\ pc' = IF res.v = <<>> THEN "connect_empty" ELSE "start"
            /\ UNCHANGED exc
    /\ UNCHANGED <<msg, content, org_msg, cid, workResult, log, files, errors,
                   nDeliv, exitcode, connVars, retryVars, qosVars, conf, fetches,
                   fs, fs0, environ, arg, res, raised, warned>>

\* fetch_args(), getsensitive has raised: the error leaves connect() and the
\* consume loop
FetchArgsRaise ==
    /\ pc = "fetch_args"
    /\ rpc = "raised"
    /\ rpc' = "idle"
    /\ exc' = raised
    /\ pc' = "fatal"
    /\ UNCHANGED <<msg, content, org_msg, cid, workResult, log, files, errors,
                   nDeliv, exitcode, connVars, retryVars, qosVars, conf, uriVars,
                   fs, fs0, environ, arg, res, raised, warned>>

\* connect() with an empty URI: UriConnection fails at every attempt, with a
\* connection error (retry() gives up, on_failure) or with another error
ConnectEmptyUri ==
    /\ pc = "connect_empty"
    /\ \/ /\ attempt' = Attempts
          /\ onFailureCalls' = onFailureCalls + 1
          /\ exitcode' = 1
          /\ pc' = "exited"
          /\ UNCHANGED exc
       \/ /\ exc' = "AMQPInvalidArgument"
          /\ pc' = "fatal"
          /\ UNCHANGED <<attempt, onFailureCalls, exitcode>>
    /\ UNCHANGED <<msg, content, org_msg, cid, workResult, log, files, errors,
                   nDeliv, connVars, faults, qosVars, confVars, uriVars>>

\* ------------------------------------------------- AMQP connection manager
\* AMQPConnection.connect(): a connection that is open is kept
\* a new connection object: an identity no channel attribute refers to
FreshConn == CHOOSE n \in 1..3 : n \notin {pub_channel, pull_channel}
ConnAfterConnect == IF conn # 0 THEN conn ELSE FreshConn
GenAfterConnect == IF conn # 0 THEN connGen ELSE FreshConn
\* AMQPConnection.publish(): connect, open the publish channel when None
PublishConnState ==
    /\ conn' = ConnAfterConnect
    /\ connGen' = GenAfterConnect
    /\ pub_channel' = IF pub_channel = 0 THEN ConnAfterConnect ELSE pub_channel
    /\ UNCHANGED pull_channel

\* AMQPConnection.consume(): connect, open the consume channel, qos,
\* basic.consume, start_consuming
ConsumeLoop_NoQos ==
    /\ pc = "start"
    /\ connection_params # PyNone
    /\ pull_channel \in {0, ConnAfterConnect}
    /\ conn' = ConnAfterConnect
    /\ connGen' = GenAfterConnect
    /\ pull_channel' = IF pull_channel = 0 THEN ConnAfterConnect ELSE pull_channel
    /\ attempt' = 0
    /\ pc' = "consuming"
    /\ UNCHANGED <<msg, content, org_msg, cid, exc, workResult, log, files, errors,
                   nDeliv, exitcode, pub_channel, onFailureCalls, faults,
                   qosVars, confVars, uriVars>>
ConsumeLoop ==
    /\ pc = "start"
    /\ connection_params # PyNone
    /\ pull_channel \in {0, ConnAfterConnect}
    /\ conn' = ConnAfterConnect
    /\ connGen' = GenAfterConnect
    /\ pull_channel' = IF pull_channel = 0 THEN ConnAfterConnect ELSE pull_channel
    /\ prefetch' = 1
    /\ attempt' = 0
    /\ pc' = "consuming"
    /\ UNCHANGED <<msg, content, org_msg, cid, exc, workResult, log, files, errors,
                   nDeliv, exitcode, pub_channel, onFailureCalls, faults,
                   buffered, confVars, uriVars>>

\* consume(), when self.pull_channel is a channel of a connection that was
\* closed: the `is None` test keeps it, and basic.qos on it raises a transport
\* error (its connection is closed), which the loop catches
ConsumeStale ==
    /\ pc = "start"
    /\ connection_params # PyNone
    /\ pull_channel \notin {0, ConnAfterConnect}
    /\ conn' = ConnAfterConnect
    /\ connGen' = GenAfterConnect
    /\ attempt' = 0
    /\ pc' = "consume_except"
    /\ UNCHANGED <<msg, content, org_msg, cid, exc, workResult, log, files, errors,
                   nDeliv, exitcode, pub_channel, pull_channel, onFailureCalls,
                   faults, qosVars, confVars, uriVars>>

\* consume(): the connection is opened, self.conn.channel() raises a transport
\* error
ChannelOpenFails ==
    /\ pc = "start"
    /\ connection_params # PyNone
    /\ pull_channel = 0
    /\ faults < MaxFaults
    /\ faults' = faults + 1
    /\ conn' = ConnAfterConnect
    /\ connGen' = GenAfterConnect
    /\ attempt' = 0
    /\ pc' = "consume_except"
    /\ UNCHANGED <<msg, content, org_msg, cid, exc, workResult, log, files, errors,
                   nDeliv, exitcode, pub_channel, pull_channel, onFailureCalls,
                   qosVars, confVars, uriVars>>

\* start_consuming() raises AMQPConnectionError or AMQPChannelError while it
\* waits for a delivery: the broker dropped the connection.  The broker puts
\* what it had sent and not seen settled back on the queue.
TransportError ==
    /\ pc = "consuming"
    /\ faults < MaxFaults
    /\ faults' = faults + 1
    /\ buffered' = 0
    /\ pc' = "consume_except"
    /\ UNCHANGED <<msg, content, org_msg, cid, exc, workResult, log, files, errors,
                   nDeliv, exitcode, connVars, attempt, onFailureCalls, prefetch,
                   confVars, uriVars>>

\* except (AMQPChannelError, AMQPConnectionError): self.close(); next iteration
ConsumeRetry_Fatal ==
    /\ pc = "consume_except"
    /\ conn' = 0
    /\ buffered' = 0
    /\ exitcode' = 2
    /\ pc' = "exited"
    /\ UNCHANGED <<msg, content, org_msg, cid, exc, workResult, log, files, errors,
                   nDeliv, connGen, pub_channel, pull_channel, retryVars,
                   prefetch, confVars, uriVars>>
ConsumeRetry ==
    /\ pc = "consume_except"
    /\ conn' = 0
    /\ buffered' = 0
    /\ pc' = "start"
    /\ UNCHANGED <<msg, content, org_msg, cid, exc, workResult, log, files, errors,
                   nDeliv, exitcode, connGen, pub_channel, pull_channel, retryVars,
                   prefetch, confVars, uriVars>>

\* connect() under retry(): an attempt raises AMQPConnectionError and attempts
\* are left: sleep, try again
ConnectRetryable ==
    /\ pc = "start"
    /\ connection_params # PyNone
    /\ conn = 0
    /\ faults < MaxFaults
    /\ attempt + 1 < Attempts
    /\ attempt' = attempt + 1
    /\ faults' = faults + 1
    /\ UNCHANGED <<pc, msg, content, org_msg, cid, exc, workResult, log, files,
                   errors, nDeliv, exitcode, connVars, onFailureCalls, qosVars, confVars, uriVars>>

\* connect() under retry(): the last attempt raises AMQPConnectionError;
\* on_failure is called, which is sys.exit(1); SystemExit is not an Exception,
\* so no handler of consume() catches it
ConnectExhausted_Propagates ==
    /\ pc = "start"
    /\ connection_params # PyNone
    /\ conn = 0
    /\ faults < MaxFaults
    /\ attempt + 1 = Attempts
    /\ attempt' = Attempts
    /\ faults' = faults + 1
    /\ pc' = "consume_except"
    /\ UNCHANGED <<msg, content, org_msg, cid, exc, workResult, log, files,
                   errors, nDeliv, exitcode, connVars, onFailureCalls, qosVars, confVars, uriVars>>
ConnectExhausted ==
    /\ pc = "start"
    /\ connection_params # PyNone
    /\ conn = 0
    /\ faults < MaxFaults
    /\ attempt + 1 = Attempts
    /\ attempt' = Attempts
    /\ faults' = faults + 1
    /\ onFailureCalls' = onFailureCalls + 1
    /\ exitcode' = 1
    /\ pc' = "exited"
    /\ UNCHANGED <<msg, content, org_msg, cid, exc, workResult, log, files,
                   errors, nDeliv, connVars, qosVars, confVars, uriVars>>

\* connect() under retry(): an attempt raises an error that is not an
\* AMQPConnectionError; retry() lets it through, and so does the consume loop
ConnectNonRetryable ==
    /\ pc = "start"
    /\ connection_params # PyNone
    /\ conn = 0
    /\ faults < MaxFaults
    /\ faults' = faults + 1
    /\ exc' = "AMQPInvalidArgument"
    /\ pc' = "fatal"
    /\ UNCHANGED <<msg, content, org_msg, cid, workResult, log, files, errors,
                   nDeliv, exitcode, connVars, attempt, onFailureCalls, qosVars,
                   confVars, uriVars>>

\* ---------------------------------------------------------------- the broker
\* the callback is running and has neither acked nor rejected its delivery
Unsettled ==
    /\ nDeliv > 0
    /\ pc \notin {"start", "consuming", "consume_except", "exited"}
    /\ \A i \in DOMAIN log : log[i].op \notin {"ack", "reject"}
\* deliveries the broker has sent on the consume channel and not seen settled
InFlight == buffered + (IF Unsettled THEN 1 ELSE 0)
\* basic.qos: the broker sends no delivery while prefetch_count are unsettled
PrefetchLimit == IF prefetch = 0 THEN MaxDeliveries ELSE prefetch
\* basic.consume was issued on the consume channel of the open connection and
\* start_consuming has not been left
ConsumerActive ==
    /\ conn # 0
    /\ pull_channel = conn
    /\ pc \notin {"start", "consume_except", "fatal", "exited"}
\* The broker sends the next delivery of the queue to the consumer.
BrokerDispatch ==
    /\ ConsumerActive
    /\ nDeliv + buffered < MaxDeliveries
    /\ InFlight < PrefetchLimit
    /\ buffered' = buffered + 1
    /\ UNCHANGED <<pc, msg, content, org_msg, cid, exc, workResult, log, files,
                   errors, nDeliv, exitcode, connVars, retryVars, prefetch, confVars, uriVars>>

\* ------------------------------------------------ dispatcher: process_request
\* The broker dispatches a delivery: _cid.set(correlation_id); content = body
Deliver ==
    /\ pc = "consuming"
    /\ buffered > 0
    /\ buffered' = buffered - 1
    /\ \E c \in CorrelationIds, t \in ContentTypes, b \in Bodies :
          /\ msg' = [correlation_id |-> c, content_type |-> t, body |-> b,
                     delivery_tag |-> nDeliv + 1]
          /\ cid' = c
          /\ content' = Str(b)
    /\ nDeliv' = nDeliv + 1
    /\ log' = <<>>
    /\ org_msg' = EmptyDict
    /\ workResult' = "none"
    /\ exc' = "none"
    /\ pc' = "parse"
    /\ UNCHANGED <<files, errors, exitcode, connVars>>
    /\ UNCHANGED <<retryVars, prefetch, confVars, uriVars>>

\* if message.content_type == 'application/json': content = json.loads(content)
ParseContent ==
    /\ pc = "parse"
    /\ IF msg.content_type = JSON
       THEN IF JsonLoads(msg.body).ok
            THEN /\ content' = JsonLoads(msg.body).value
                 /\ pc' = "check_empty"
                 /\ UNCHANGED exc
            ELSE /\ exc' = "JSONDecodeError"
                 /\ pc' = "except_json"
                 /\ UNCHANGED content
       ELSE /\ pc' = "check_empty"
            /\ UNCHANGED <<content, exc>>
    /\ UNCHANGED <<msg, org_msg, cid, workResult, log, files, errors, nDeliv,
                   exitcode, connVars>>
    /\ UNCHANGED loopVars

\* if not content: message.ack(); return
CheckEmpty_NoAck ==
    /\ pc = "check_empty"
    /\ pc' = IF Truthy(content) THEN "work" ELSE "finally"
    /\ UNCHANGED <<msg, content, org_msg, cid, exc, workResult, log, files, errors,
                   nDeliv, exitcode, connVars>>
    /\ UNCHANGED loopVars
CheckEmpty ==
    /\ pc = "check_empty"
    /\ IF Truthy(content)
       THEN pc' = "work" /\ UNCHANGED log
       ELSE pc' = "finally" /\ log' = Append(log, EvAck)
    /\ UNCHANGED <<msg, content, org_msg, cid, exc, workResult, files, errors,
                   nDeliv, exitcode, connVars>>
    /\ UNCHANGED loopVars


\* ----------------------------------------------------- the pipeline: work()
\* The file_id work() stashed on the request
FileId == content.d.file_id
HasFileId == content.kind = "dict" /\ "file_id" \in DOMAIN content.d

\* An exception leaves the body of work(): the decorators see it next
Raise(e) ==
    /\ exc' = e
    /\ pc' = "catch_error"

\* _handle_request calls work(content): filepath = data['filepath'];
\* user_id = sanitize_user_id(data['user'])   (KeyError / TypeError otherwise)
WorkExtract ==
    /\ pc = "work"
    /\ log' = Append(log, EvWork)
    /\ IF content.kind = "dict" /\ {"filepath", "user"} \subseteq DOMAIN content.d
       THEN pc' = "work_insert" /\ UNCHANGED exc
       ELSE Raise(IF content.kind = "dict" THEN "KeyError" ELSE "TypeError")
    /\ UNCHANGED <<msg, content, org_msg, cid, workResult, files, errors, nDeliv,
                   exitcode, connVars>>
    /\ UNCHANGED loopVars

\* file_id = db.insert_file(filepath, user_id); data['file_id'] = file_id;
\* org_msg = data.copy(); data['org_msg'] = org_msg
WorkInsertFile ==
    /\ pc = "work_insert"
    /\ \/ LET fid == Len(files) + 1
              withId == Put(content.d, "file_id", fid)
          IN  /\ files' = InsertFile(files, content.d.filepath,
                                     SanitizeUserId(content.d.user))
              /\ org_msg' = withId
              /\ content' = Dict(Put(withId, "org_msg", withId))
              /\ log' = Append(log, EvDb("insert_file", fid))
              /\ pc' = "work_inbox"
              /\ UNCHANGED exc
       \/ \E e \in CollaboratorRaises :
              /\ Raise(e)
              /\ UNCHANGED <<files, org_msg, content, log>>
    /\ UNCHANGED <<msg, cid, workResult, errors, nDeliv, exitcode, connVars>>
    /\ UNCHANGED loopVars

\* if not inbox_filepath.exists(): raise NotFoundInInbox(filepath)
WorkCheckInbox_MarkFirst ==
    /\ pc = "work_inbox"
    /\ \E exists \in BOOLEAN :
          IF exists
          THEN /\ pc' = "work_mark"
               /\ log' = Append(log, EvInbox("inbox_exists"))
               /\ UNCHANGED <<exc, files>>
          ELSE /\ Raise("NotFoundInInbox")
               /\ files' = MarkInProgress(files, FileId)
               /\ log' = log \o <<EvDb("mark_in_progress", FileId),
                                  EvInbox("inbox_exists")>>
    /\ UNCHANGED <<msg, content, org_msg, cid, workResult, errors, nDeliv,
                   exitcode, connVars>>
    /\ UNCHANGED loopVars
WorkCheckInbox ==
    /\ pc = "work_inbox"
    /\ log' = Append(log, EvInbox("inbox_exists"))
    /\ \E exists \in BOOLEAN :
          IF exists
          THEN pc' = "work_mark" /\ UNCHANGED exc
          ELSE Raise("NotFoundInInbox")
    /\ UNCHANGED <<msg, content, org_msg, cid, workResult, files, errors, nDeliv,
                   exitcode, connVars>>
    /\ UNCHANGED loopVars

\* db.mark_in_progress(file_id)
WorkMarkInProgress_Skip ==
    /\ pc = "work_mark"
    /\ \/ /\ log' = Append(log, EvDb("mark_in_progress", FileId))
          /\ pc' = "work_progress"
          /\ UNCHANGED <<exc, files>>
       \/ \E e \in CollaboratorRaises :
              /\ Raise(e)
              /\ UNCHANGED <<files, log>>
    /\ UNCHANGED <<msg, content, org_msg, cid, workResult, errors, nDeliv,
                   exitcode, connVars>>
    /\ UNCHANGED loopVars
WorkMarkInProgress_AnnounceFirst ==
    /\ pc = "work_mark"
    /\ \/ /\ files' = MarkInProgress(files, FileId)
          /\ log' = Append(log, EvDb("mark_in_progress", FileId))
          /\ pc' = "work_progress"
          /\ UNCHANGED exc
       \/ \E e \in CollaboratorRaises :
              /\ Raise(e)
              /\ log' = Append(log, EvPublish(Put(org_msg, "status", "PROCESSING"),
                                              ChannelObject, "cega", "files.processing"))
              /\ UNCHANGED files
    /\ UNCHANGED <<msg, content, org_msg, cid, workResult, errors, nDeliv,
                   exitcode, connVars>>
    /\ UNCHANGED loopVars
WorkMarkInProgress ==
    /\ pc = "work_mark"
    /\ \/ /\ files' = MarkInProgress(files, FileId)
          /\ log' = Append(log, EvDb("mark_in_progress", FileId))
          /\ pc' = "work_progress"
          /\ UNCHANGED exc
       \/ \E e \in CollaboratorRaises :
              /\ Raise(e)
              /\ UNCHANGED <<files, log>>
    /\ UNCHANGED <<msg, content, org_msg, cid, workResult, errors, nDeliv,
                   exitcode, connVars>>
    /\ UNCHANGED loopVars

\* publish(content, exchange=None, routing_key=None, correlation_id=None):
\* the values the module-level publish hands to connection.publish
PublishCid(correlation_id) == IF correlation_id # NoCid THEN correlation_id ELSE cid
PublishExchange(exchange) == IF exchange # "" THEN exchange ELSE DefaultExchange
PublishRoutingKey(routing_key) ==
    IF routing_key # "" THEN routing_key ELSE DefaultRoutingKey
\* assert(correlation_id), "You should not publish without a correlation id"
PublishAsserts(correlation_id) == PublishCid(correlation_id) # NoCid
PublishEvent(c, exchange, routing_key, correlation_id) ==
    EvPublish(c, PublishExchange(exchange), PublishRoutingKey(routing_key),
              PublishCid(correlation_id))

\* org_msg['status'] = 'PROCESSING';
\* publish(org_msg, channel, 'cega', 'files.processing');
\* org_msg.pop('status', None)
WorkPublishProgress ==
    /\ pc = "work_progress"
    /\ LET announced == Put(org_msg, "status", "PROCESSING")
       IN  /\ log' = Append(log, PublishEvent(announced, ChannelObject, "cega",
                                              "files.processing"))
           /\ org_msg' = Pop(announced, "status")
           /\ content' = Dict(Put(content.d, "org_msg", Pop(announced, "status")))
    /\ PublishConnState
    /\ pc' = "work_header"
    /\ UNCHANGED <<msg, cid, exc, workResult, files, errors, nDeliv, exitcode>>
    /\ UNCHANGED loopVars

\* with open(inbox_filepath, 'rb') as infile: beginning, header = get_header(infile)
\* (crypt4gh_to_user_errors: a header-parser error leaves work() as a FromUser)
WorkGetHeader ==
    /\ pc = "work_header"
    /\ log' = Append(log, EvInbox("inbox_open"))
    /\ \/ pc' = "work_copy" /\ UNCHANGED exc
       \/ Raise("FromUser")
       \/ \E e \in CollaboratorRaises : Raise(e)
    /\ UNCHANGED <<msg, content, org_msg, cid, workResult, files, errors, nDeliv,
                   exitcode, connVars>>
    /\ UNCHANGED loopVars

\* target = fs.location(file_id); target_size = fs.copy(infile, target)
WorkCopy_SetInfoOnFailure ==
    /\ pc = "work_copy"
    /\ \/ /\ log' = Append(log, EvCopy(FileId, PayloadSize))
          /\ pc' = "work_set_info"
          /\ UNCHANGED <<exc, files>>
       \/ \E e \in CollaboratorRaises :
              /\ Raise(e)
              /\ files' = SetInfo(files, FileId, Location(FileId), 0,
                                  Hex(Beginning \o Header))
              /\ log' = Append(log, EvDb("set_info", FileId))
    /\ UNCHANGED <<msg, content, org_msg, cid, workResult, errors, nDeliv,
                   exitcode, connVars>>
    /\ UNCHANGED loopVars
WorkCopy ==
    /\ pc = "work_copy"
    /\ \/ /\ log' = Append(log, EvCopy(FileId, PayloadSize))
          /\ pc' = "work_set_info"
          /\ UNCHANGED exc
       \/ \E e \in CollaboratorRaises :
              /\ Raise(e)
              /\ UNCHANGED log
    /\ UNCHANGED <<msg, content, org_msg, cid, workResult, files, errors, nDeliv,
                   exitcode, connVars>>
    /\ UNCHANGED loopVars

\* header_hex = (beginning+header).hex();
\* db.set_info(file_id, target, target_size, header_hex);
\* data['header'] = header_hex; data['vault_path'] = target; return data
WorkSetInfo ==
    /\ pc = "work_set_info"
    /\ \/ LET hex == Hex(Beginning \o Header)
          IN  /\ files' = SetInfo(files, FileId, Location(FileId), PayloadSize, hex)
              /\ log' = Append(log, EvDb("set_info", FileId))
              /\ content' = Dict(Put(Put(content.d, "header", hex),
                                     "vault_path", Location(FileId)))
              /\ workResult' = "returned"
              /\ pc' = "work_returned"
              /\ UNCHANGED exc
       \/ \E e \in CollaboratorRaises :
              /\ Raise(e)
              /\ UNCHANGED <<files, log, content, workResult>>
    /\ UNCHANGED <<msg, org_msg, cid, errors, nDeliv, exitcode, connVars>>
    /\ UNCHANGED loopVars

\* db.catch_error: on any exception from work, set_error(data['file_id'], e) when
\* file_id is present in the call's data, then re-raise
CatchError ==
    /\ pc = "catch_error"
    /\ IF HasFileId
       THEN /\ errors' = Append(errors, SetError(FileId, exc))
            /\ log' = Append(log, EvDb("set_error", FileId))
       ELSE UNCHANGED <<errors, log>>
    /\ workResult' = exc
    /\ pc' = "handle_exc"
    /\ UNCHANGED <<msg, content, org_msg, cid, exc, files, nDeliv, exitcode,
                   connVars>>
    /\ UNCHANGED loopVars


\* ------------------------------------------------ dispatcher: _handle_request
\* work(content) returned: its value is dropped; message.ack()
HandleReturn ==
    /\ pc = "work_returned"
    /\ log' = Append(log, EvAck)
    /\ pc' = "finally"
    /\ UNCHANGED <<msg, content, org_msg, cid, exc, workResult, files, errors,
                   nDeliv, exitcode, connVars>>
    /\ UNCHANGED loopVars

\* except exceptions.RejectMessage: message.reject()   (requeue=True)
HandleReject ==
    /\ pc = "handle_exc"
    /\ exc = "RejectMessage"
    /\ log' = Append(log, EvReject(TRUE))
    /\ exc' = "none"
    /\ pc' = "finally"
    /\ UNCHANGED <<msg, content, org_msg, cid, workResult, files, errors, nDeliv,
                   exitcode, connVars>>
    /\ UNCHANGED loopVars

\* except exceptions.FromUser as ue: assert isinstance(content, dict);
\* content['reason'] = str(cause); clean_message(content);
\* publish(content, routing_key=user_error_key); message.ack(); raise ue
HandleFromUser_NoAck ==
    /\ pc = "handle_exc"
    /\ IsFromUser(exc)
    /\ IF content.kind # "dict"
       THEN /\ exc' = "AssertionError"
            /\ UNCHANGED <<content, log, connVars>>
       ELSE LET scrubbed == CleanMessage(Put(content.d, "reason", exc))
            IN  /\ content' = Dict(scrubbed)
                /\ IF PublishAsserts(NoCid)
                   THEN /\ log' = log \o <<PublishEvent(scrubbed, "", UserErrorKey, NoCid)>>
                        /\ PublishConnState
                        /\ UNCHANGED exc
                   ELSE /\ exc' = "AssertionError"
                        /\ UNCHANGED <<log, connVars>>
    /\ pc' = "except_other"
    /\ UNCHANGED <<msg, org_msg, cid, workResult, files, errors, nDeliv, exitcode>>
    /\ UNCHANGED loopVars
HandleFromUser_NoClean ==
    /\ pc = "handle_exc"
    /\ IsFromUser(exc)
    /\ IF content.kind # "dict"
       THEN /\ exc' = "AssertionError"
            /\ UNCHANGED <<content, log, connVars>>
       ELSE LET withReason == Put(content.d, "reason", exc)
            IN  /\ content' = Dict(withReason)
                /\ IF PublishAsserts(NoCid)
                   THEN /\ log' = log \o <<PublishEvent(withReason, "", UserErrorKey, NoCid),
                                           EvAck>>
                        /\ PublishConnState
                        /\ UNCHANGED exc
                   ELSE /\ exc' = "AssertionError"
                        /\ UNCHANGED <<log, connVars>>
    /\ pc' = "except_other"
    /\ UNCHANGED <<msg, org_msg, cid, workResult, files, errors, nDeliv, exitcode>>
    /\ UNCHANGED loopVars
HandleFromUser ==
    /\ pc = "handle_exc"
    /\ IsFromUser(exc)
    /\ IF content.kind # "dict"
       THEN /\ exc' = "AssertionError"
            /\ UNCHANGED <<content, log, connVars>>
       ELSE LET scrubbed == CleanMessage(Put(content.d, "reason", exc))
            IN  /\ content' = Dict(scrubbed)
                /\ IF PublishAsserts(NoCid)
                   THEN /\ log' = log \o <<PublishEvent(scrubbed, "", UserErrorKey, NoCid),
                                           EvAck>>
                        /\ PublishConnState
                        /\ UNCHANGED exc
                   ELSE /\ exc' = "AssertionError"
                        /\ UNCHANGED <<log, connVars>>
    /\ pc' = "except_other"
    /\ UNCHANGED <<msg, org_msg, cid, workResult, files, errors, nDeliv, exitcode>>
    /\ UNCHANGED loopVars

\* Any other exception passes through _handle_request to process_request
HandlePropagate ==
    /\ pc = "handle_exc"
    /\ exc # "RejectMessage"
    /\ ~IsFromUser(exc)
    /\ pc' = "except_other"
    /\ UNCHANGED <<msg, content, org_msg, cid, exc, workResult, log, files, errors,
                   nDeliv, exitcode, connVars>>
    /\ UNCHANGED loopVars

\* ------------------------------------- dispatcher: process_request's handlers
\* except json.JSONDecodeError: connection.publish(error, exchange, error_key,
\* correlation_id); message.reject(requeue=False)
MalformedEnvelope ==
    [informal |-> "Malformed JSON-message", formal |-> exc, message |-> content.s]
ExceptJSON_Requeue ==
    /\ pc = "except_json"
    /\ log' = log \o <<EvPublish(MalformedEnvelope, DefaultExchange, ErrorKey,
                                 msg.correlation_id),
                       EvReject(TRUE)>>
    /\ PublishConnState
    /\ exc' = "none"
    /\ pc' = "finally"
    /\ UNCHANGED <<msg, content, org_msg, cid, workResult, files, errors, nDeliv,
                   exitcode>>
    /\ UNCHANGED loopVars
ExceptJSON ==
    /\ pc = "except_json"
    /\ log' = log \o <<EvPublish(MalformedEnvelope, DefaultExchange, ErrorKey,
                                 msg.correlation_id),
                       EvReject(FALSE)>>
    /\ PublishConnState
    /\ exc' = "none"
    /\ pc' = "finally"
    /\ UNCHANGED <<msg, content, org_msg, cid, workResult, files, errors, nDeliv,
                   exitcode>>
    /\ UNCHANGED loopVars

\* except Exception as e: content['error'] = {informal, formal};
\* connection.publish(content, exchange, error_key, correlation_id);
\* message.reject(requeue=False)
\* (content['error'] = ... is a TypeError when content is no dict: it leaves the
\* handler)
ErrorInfo == [informal |-> exc, formal |-> exc]
ExceptOther_RejectFirst ==
    /\ pc = "except_other"
    /\ IF content.kind # "dict"
       THEN /\ exc' = "TypeError"
            /\ UNCHANGED <<content, log, connVars>>
       ELSE /\ content' = Dict(Put(content.d, "error", ErrorInfo))
            /\ log' = log \o <<EvReject(FALSE),
                               EvPublish(Put(content.d, "error", ErrorInfo),
                                         DefaultExchange, ErrorKey, msg.correlation_id)>>
            /\ PublishConnState
            /\ exc' = "none"
    /\ pc' = "finally"
    /\ UNCHANGED <<msg, org_msg, cid, workResult, files, errors, nDeliv, exitcode>>
    /\ UNCHANGED loopVars
ExceptOther ==
    /\ pc = "except_other"
    /\ IF content.kind # "dict"
       THEN /\ exc' = "TypeError"
            /\ UNCHANGED <<content, log, connVars>>
       ELSE /\ content' = Dict(Put(content.d, "error", ErrorInfo))
            /\ log' = log \o <<EvPublish(Put(content.d, "error", ErrorInfo),
                                         DefaultExchange, ErrorKey, msg.correlation_id),
                               EvReject(FALSE)>>
            /\ PublishConnState
            /\ exc' = "none"
    /\ pc' = "finally"
    /\ UNCHANGED <<msg, org_msg, cid, workResult, files, errors, nDeliv, exitcode>>
    /\ UNCHANGED loopVars

\* process_request without the statement of its finally clause
Finally_KeepCid ==
    /\ pc = "finally"
    /\ pc' = IF exc = "none" THEN "consuming" ELSE "fatal"
    /\ UNCHANGED <<msg, content, org_msg, cid, exc, workResult, log, files, errors,
                   nDeliv, exitcode, connVars>>
    /\ UNCHANGED loopVars
\* finally: _cid.set(None); then back to start_consuming, or the exception that
\* left the handler leaves AMQPConnection.consume as well
Finally ==
    /\ pc = "finally"
    /\ cid' = NoCid
    /\ pc' = IF exc = "none" THEN "consuming" ELSE "fatal"
    /\ UNCHANGED <<msg, content, org_msg, exc, workResult, log, files, errors,
                   nDeliv, exitcode, connVars>>
    /\ UNCHANGED loopVars

\* consume(): except Exception: connection.close(); sys.exit(2)
Fatal ==
    /\ pc = "fatal"
    /\ conn' = 0
    /\ exitcode' = 2
    /\ pc' = "exited"
    /\ buffered' = 0
    /\ UNCHANGED <<msg, content, org_msg, cid, exc, workResult, log, files, errors,
                   nDeliv, connGen, pub_channel, pull_channel, retryVars,
                   prefetch, confVars, uriVars>>

Next ==
    \/ FetchArgsCall
    \/ ConvertPlain
    \/ FetchArgsReturn
    \/ ConsumeLoop
    \/ BrokerDispatch
    \/ Deliver
    \/ ParseContent
    \/ CheckEmpty
    \/ WorkExtract
    \/ WorkInsertFile
    \/ WorkCheckInbox
    \/ WorkMarkInProgress
    \/ WorkPublishProgress
    \/ WorkGetHeader
    \/ WorkCopy
    \/ WorkSetInfo
    \/ CatchError
    \/ HandleReturn
    \/ HandleReject
    \/ HandleFromUser
    \/ HandlePropagate
    \/ ExceptJSON
    \/ ExceptOther
    \/ Finally
    \/ Fatal

Spec == Init /\ [][Next]_vars

\* The worker with a broker and a network that fail: what Next does, and the
\* transport faults of the consume loop and of connect().
NextFaults ==
    \/ Next
    \/ ConsumeStale
    \/ ChannelOpenFails
    \/ TransportError
    \/ ConsumeRetry
    \/ ConnectRetryable
    \/ ConnectExhausted
    \/ ConnectNonRetryable

\* The process runs on while a step of its own is possible; faults need not
\* occur.
SpecFaults ==
    /\ Init
    /\ [][NextFaults]_vars
    /\ WF_vars(Next)
    /\ WF_vars(ConsumeStale)
    /\ WF_vars(ConsumeRetry)

\* SIGINT while start_consuming runs: KeyboardInterrupt is raised in the main
\* thread, which is the thread of the callback.  No except clause of
\* process_request or _handle_request matches it; the finally clause of
\* process_request runs (unless the interrupt arrives inside it); the consume
\* loop catches it.
KeyboardInterrupt ==
    /\ ConsumerActive
    /\ pc # "consume_interrupt"
    /\ exc' = "KeyboardInterrupt"
    /\ cid' \in (IF pc = "finally" THEN {cid, NoCid} ELSE {NoCid})
    /\ pc' = "consume_interrupt"
    /\ UNCHANGED <<msg, content, org_msg, workResult, log, files, errors, nDeliv,
                   exitcode, connVars, loopVars>>

\* except KeyboardInterrupt: self.pull_channel.stop_consuming(); self.close();
\* break.  consume() returns and the process ends normally.
ConsumeInterrupt ==
    /\ pc = "consume_interrupt"
    /\ conn' = 0
    /\ buffered' = 0
    /\ exitcode' = 0
    /\ pc' = "exited"
    /\ UNCHANGED <<msg, content, org_msg, cid, exc, workResult, log, files, errors,
                   nDeliv, connGen, pub_channel, pull_channel, retryVars,
                   prefetch, confVars, uriVars>>

\* The worker and an operator who may interrupt it.
NextInterrupt ==
    \/ Next
    \/ KeyboardInterrupt
    \/ ConsumeInterrupt
SpecInterrupt == Init /\ [][NextInterrupt]_vars

\* The worker under each setting of the DEFAULT options `error` and
\* `user_error`.
Configs ==
    {EmptyDict,
     [k \in {"error"} |-> "lega.error"],
     [k \in {"user_error"} |-> "lega.error.user"],
     [k \in {"error", "user_error"} |->
         IF k = "error" THEN "lega.error" ELSE "lega.error.user"]}
InitRouting ==
    /\ WorkerInit
    /\ conf \in Configs
    /\ ResolverIdle
SpecRouting == InitRouting /\ [][Next]_vars

\* The connection manager alone, the `connection` option of the broker section
\* being any sensitive value on any file system: fetch_args, connect() under
\* retry(), the consume loop and its reconnects; no delivery arrives.
NextUri ==
    \/ FetchArgsCall
    \/ ConvertNone
    \/ ConvertValue
    \/ ConvertEnv
    \/ ConvertFile
    \/ ConvertSecret
    \/ GetFromFileFinally
    \/ ConvertPlain
    \/ FetchArgsReturn
    \/ FetchArgsRaise
    \/ ConnectEmptyUri
    \/ ConsumeLoop
    \/ ConsumeStale
    \/ ChannelOpenFails
    \/ TransportError
    \/ ConsumeRetry
    \/ ConnectRetryable
    \/ ConnectExhausted
    \/ ConnectNonRetryable
    \/ Fatal
InitUri ==
    /\ WorkerInit
    /\ conf = EmptyDict
    /\ fs \in FileSystems
    /\ fs0 = fs
    /\ environ \in Environs
    /\ arg \in SensitiveValues
    /\ res = PyNone
    /\ raised = "none"
    /\ warned = FALSE
    /\ rpc = "idle"
SpecUri == InitUri /\ [][NextUri]_vars

NextSecret ==
    \/ ConvertNone
    \/ ConvertValue
    \/ ConvertEnv
    \/ ConvertFile
    \/ ConvertSecret
    \/ GetFromFileFinally
    \/ ConvertPlain

\* convert_sensitive called with each value, on each file system and environment
InitSecret ==
    /\ WorkerInit
    /\ conf = EmptyDict
    /\ fs \in FileSystems
    /\ fs0 = fs
    /\ environ \in Environs
    /\ arg \in SensitiveValues
    /\ res = PyNone
    /\ raised = "none"
    /\ warned = FALSE
    /\ rpc = "call"
SpecSecret == InitSecret /\ [][NextSecret]_vars


\* ------------------------------------------------------------- properties
\* The handling of the current delivery is over: process_request returned to the
\* consume loop, or an exception left it
Finished == nDeliv > 0 /\ pc \in {"consuming", "fatal", "exited"}
OpIdx(name) == {i \in DOMAIN log : log[i].op = name}
AckIdx == OpIdx("ack")
RejectIdx(rq) == {i \in OpIdx("reject") : log[i].requeue = rq}
PublishIdx == OpIdx("publish")
\* publishes on the configured exchange with routing key rk
PubIdx(rk) ==
    {i \in PublishIdx : log[i].exchange = DefaultExchange /\ log[i].routing_key = rk}
DbIdx ==
    OpIdx("insert_file") \cup OpIdx("mark_in_progress") \cup OpIdx("set_info")
        \cup OpIdx("set_error")
\* the file_id insert_file returned for this delivery
InsertedId == log[CHOOSE i \in OpIdx("insert_file") : TRUE].file_id
ErrorRowsOf(fid) == {k \in DOMAIN errors : errors[k].file_id = fid}
\* work() left with an exception that is neither RejectMessage nor FromUser
WorkRaisedOther ==
    workResult \notin ({"none", "returned", "RejectMessage"} \cup FromUserClasses)

\* C1: when work() returned normally for a delivery, exactly one message carrying
\* file_id is published on (default exchange, default routing key), and it is
\* published before the delivery is acked.
C1_SuccessPublishedOnceBeforeAck ==
    (Finished /\ workResult = "returned") =>
        /\ Cardinality({i \in PubIdx(DefaultRoutingKey) :
                            "file_id" \in DOMAIN log[i].content}) = 1
        /\ \A i \in PubIdx(DefaultRoutingKey), j \in AckIdx : i < j

\* The outcome C2 describes for a FromUser failure
FromUserOutcome ==
    /\ Cardinality(PubIdx(UserErrorKey)) = 1
    /\ \A i \in PubIdx(UserErrorKey) : "reason" \in DOMAIN log[i].content
    /\ Cardinality(AckIdx) = 1
    /\ Cardinality(PubIdx(ErrorKey)) = 1

C3_OtherErrorOutcome ==
    (Finished /\ WorkRaisedOther) =>
        /\ Cardinality(PubIdx(ErrorKey)) = 1
        /\ Cardinality(RejectIdx(FALSE)) = 1
        /\ AckIdx = {}

ErrorPubIdx == PubIdx(UserErrorKey) \cup PubIdx(ErrorKey)

\* C4 (as stated): every error message published for a delivery is published before
\* the delivery is acked or rejected.
C4_ErrorPublishBeforeSettle ==
    \A i \in ErrorPubIdx, j \in AckIdx \cup OpIdx("reject") : i < j

\* C4 (amended): every error message published for a delivery is published before
\* the delivery is rejected, and the user-error message before the delivery is
\* acked; a system-error message is published after the ack when there is one.
C4_ErrorPublishOrder ==
    /\ \A i \in ErrorPubIdx, j \in OpIdx("reject") : i < j
    /\ \A i \in PubIdx(UserErrorKey), j \in AckIdx : i < j
    /\ \A i \in PubIdx(ErrorKey), j \in AckIdx : j < i

C4_Witness ==
    /\ Finished
    /\ PubIdx(UserErrorKey) # {}
    /\ PubIdx(ErrorKey) # {}
    /\ AckIdx # {}
    /\ RejectIdx(FALSE) # {}

MalformedDelivery ==
    nDeliv > 0 /\ msg.content_type = JSON /\ ~JsonLoads(msg.body).ok

EmptyDelivery ==
    /\ nDeliv > 0
    /\ IF msg.content_type = JSON
       THEN JsonLoads(msg.body).ok /\ ~Truthy(JsonLoads(msg.body).value)
       ELSE ~Truthy(Str(msg.body))

\* C6: for every delivery whose content is empty/falsy, work() is not invoked,
\* nothing is published and no DB operation is performed, and when the handling is
\* over the delivery has been acked exactly once (and not rejected).
C6_EmptyContent ==
    EmptyDelivery =>
        /\ OpIdx("work") = {}
        /\ PublishIdx = {}
        /\ DbIdx = {}
        /\ Finished => (Cardinality(AckIdx) = 1 /\ OpIdx("reject") = {})

C6_Witness == EmptyDelivery /\ Finished /\ msg.content_type = JSON /\ AckIdx # {}

\* C7: for every delivery whose work() raises RejectMessage, the delivery is
\* rejected with requeue=true, nothing is published on any exchange, and no DB
\* write (no errors-table row either) occurs for it.
C7_RejectMessageNoSideEffect ==
    (Finished /\ workResult = "RejectMessage") =>
        /\ Cardinality(RejectIdx(TRUE)) = 1
        /\ PublishIdx = {}
        /\ DbIdx = {}

C9_WitnessNoFileId ==
    /\ pc = "handle_exc"
    /\ workResult = "Exception"
    /\ OpIdx("insert_file") = {}

\* C10: in the message a successful work() returns, org_msg equals the request as
\* it arrived: exactly the fields of the inbound request, nothing added.
C10_OrgMsgVerbatim ==
    workResult = "returned" => content.d.org_msg = JsonLoads(msg.body).value.d


\* the PROCESSING announcements published for this delivery
ProgressPubIdx ==
    {i \in PublishIdx : "status" \in DOMAIN log[i].content
                            /\ log[i].content.status = "PROCESSING"}
\* the progress step of work() is behind for this delivery
ProgressStepDone == OpIdx("mark_in_progress") # {} /\ pc # "work_progress"

\* C11: for every delivery that reaches mark_in_progress, exactly one progress
\* message, the original request plus status = 'PROCESSING', is published to
\* exchange cega with routing key files.processing, and after that publish the
\* in-memory org_msg has no status field.
C11_ProgressAnnouncement ==
    ProgressStepDone =>
        /\ Cardinality({i \in PublishIdx :
                            /\ log[i].exchange = "cega"
                            /\ log[i].routing_key = "files.processing"
                            /\ log[i].content =
                                  Put(JsonLoads(msg.body).value.d, "status", "PROCESSING")})
              = 1
        /\ "status" \notin DOMAIN org_msg

\* C12: every message published on the user-error routing key contains none of
\* the internal fields file_id, org_msg, header, vault_path.
C12_UserErrorScrubbed ==
    \A i \in PubIdx(UserErrorKey) :
        (DOMAIN log[i].content) \cap {"file_id", "org_msg", "header", "vault_path"} = {}

C12_Witness ==
    /\ PubIdx(UserErrorKey) # {}
    /\ workResult = "FromUser"
    /\ OpIdx("mark_in_progress") # {}

\* work() has ended with an exception raised by header parsing or by the copy
HeaderOrCopyFailed ==
    /\ OpIdx("inbox_open") # {}
    /\ OpIdx("copy") = {}
    /\ pc # "work_copy"

\* C19: set_info(file_id) is called only after mark_in_progress(file_id) and
\* after the vault copy has returned its size; when header parsing or the copy
\* fails, set_info is never called for that file_id.
C19_SetInfoAfterCopy ==
    /\ \A k \in OpIdx("set_info") :
          /\ \E i \in OpIdx("mark_in_progress") :
                i < k /\ log[i].file_id = log[k].file_id
          /\ \E j \in OpIdx("copy") :
                j < k /\ log[j].file_id = log[k].file_id /\ log[j].size = PayloadSize
    /\ HeaderOrCopyFailed => OpIdx("set_info") = {}

C19_Witness == OpIdx("set_info") # {} /\ workResult = "returned"

C19_WitnessCopyFailed ==
    HeaderOrCopyFailed /\ workResult = "Exception" /\ OpIdx("set_error") # {}

\* C20: insert_file precedes every inbox or vault access (exists, open, copy);
\* mark_in_progress precedes the PROCESSING publish; when mark_in_progress fails
\* no PROCESSING message is published.
C20_InsertAndMarkFirst ==
    /\ \A k \in OpIdx("inbox_exists") \cup OpIdx("inbox_open") \cup OpIdx("copy") :
          \E i \in OpIdx("insert_file") : i < k
    /\ \A k \in ProgressPubIdx :
          \E i \in OpIdx("mark_in_progress") : i < k
    /\ OpIdx("mark_in_progress") = {} => ProgressPubIdx = {}

C20_Witness ==
    /\ ProgressPubIdx # {}
    /\ OpIdx("copy") # {}

C20_WitnessMarkFailed ==
    /\ OpIdx("inbox_exists") # {}
    /\ OpIdx("mark_in_progress") = {}
    /\ workResult = "Exception"

\* C13: after a transport error during consume, provided the broker is reachable
\* again within the retry budget (connect() neither exhausts its attempts nor
\* fails for good), the consume loop closes the connection, reconnects and
\* eventually consumes the queue again.
C13_ResumesAfterTransportError ==
    (pc = "consume_except") ~> (pc = "consuming" \/ exitcode # -1)

\* C14: at most one un-acked delivery is in flight on the consume channel:
\* prefetch_count is 1 whenever the worker consumes (after a reconnect too), and
\* while the callback has not settled its delivery the broker has sent no
\* second one.
C14_OneInFlight ==
    /\ ConsumerActive => prefetch = 1
    /\ InFlight <= 1
    /\ Unsettled => buffered = 0

C14_Witness == Unsettled /\ nDeliv = 2 /\ faults > 0

\* C15 as stated: an exception in the consume loop that is not a transport error
\* is fatal, the connection is closed and the exit code is 2; transport errors
\* alone never terminate the process.
C15_OnlyOtherExceptionsTerminate ==
    /\ (pc = "exited" /\ exc # "none") => (exitcode = 2 /\ conn = 0)
    /\ exitcode # -1 => exc # "none"

\* C15, amended: an exception in the consume loop that is not a transport error
\* is fatal, the connection is closed and the exit code is 2; transport errors
\* never give exit code 2, and they end the process only when connect() has
\* used up its attempts, with exit code 1.
C15_FatalExceptions ==
    /\ (pc = "exited" /\ exc # "none") => (exitcode = 2 /\ conn = 0)
    /\ pc = "fatal" => exc # "none"
    /\ exitcode = 2 => exc # "none"
    /\ (exitcode # -1 /\ exc = "none") =>
          (exitcode = 1 /\ attempt = Attempts /\ faults > 0 /\ conn = 0)

C15_Witness == exitcode = 2 /\ nDeliv > 0 /\ faults > 0 /\ exc = "TypeError"

C15_WitnessExhausted == exitcode = 1 /\ nDeliv > 0

\* C16: connect() makes at most Attempts attempts on connection errors; when all
\* of them fail on_failure runs exactly once and the exit code is 1, not 2; an
\* error that is not retryable propagates at once, without another attempt and
\* without on_failure.
C16_ConnectAttempts ==
    /\ attempt <= Attempts
    /\ onFailureCalls = (IF exitcode = 1 THEN 1 ELSE 0)
    /\ attempt = Attempts <=> exitcode = 1
    /\ exc = "AMQPInvalidArgument" =>
          /\ pc \in {"fatal", "exited"}
          /\ onFailureCalls = 0
          /\ exitcode \in {-1, 2}

C16_Witness == exitcode = 1 /\ attempt = Attempts /\ onFailureCalls = 1

C16_WitnessNonRetryable ==
    exc = "AMQPInvalidArgument" /\ exitcode = 2 /\ attempt > 0

\* messages the dispatcher sends to the user: a reason, no error record
UserErrorPubs ==
    {i \in PublishIdx : "reason" \in DOMAIN log[i].content
                            /\ "error" \notin DOMAIN log[i].content}
\* messages the dispatcher sends to the operators
SystemErrorPubs ==
    {i \in PublishIdx : "error" \in DOMAIN log[i].content
                            \/ "formal" \in DOMAIN log[i].content}

\* C18 as stated: the option `error` of DEFAULT sets the user-error routing key,
\* `user_error` being an alias of it; system-error messages go to another key,
\* error.system unless configured.
C18_ErrorOptionIsUserKey ==
    /\ \A i \in UserErrorPubs :
          log[i].routing_key =
              (IF "error" \in DOMAIN conf THEN conf["error"]
               ELSE IF "user_error" \in DOMAIN conf THEN conf["user_error"]
               ELSE "error")
    /\ \A i \in SystemErrorPubs, j \in UserErrorPubs :
          log[i].routing_key # log[j].routing_key

\* C18, amended: the option `user_error` of DEFAULT sets the user-error routing
\* key, `error` when it is not set; the option `error` sets the system-error
\* routing key, `error.system` when it is not set.
C18_RoutingKeys ==
    /\ \A i \in UserErrorPubs :
          /\ log[i].exchange = DefaultExchange
          /\ log[i].routing_key =
                (IF "user_error" \in DOMAIN conf THEN conf["user_error"] ELSE "error")
    /\ \A i \in SystemErrorPubs :
          /\ log[i].exchange = DefaultExchange
          /\ log[i].routing_key =
                (IF "error" \in DOMAIN conf THEN conf["error"] ELSE "error.system")

C18_Witness ==
    /\ DOMAIN conf = {"error", "user_error"}
    /\ UserErrorPubs # {}
    /\ SystemErrorPubs # {}

\* convert_sensitive('secret://' + path) has returned or raised
SecretResolved == rpc \in {"returned", "raised"} /\ StartsWith(arg, "secret://")

C17_WitnessRemovalFails == SecretResolved /\ rpc = "returned" /\ warned

C17_WitnessUnreadable ==
    SecretResolved /\ rpc = "raised" /\ FileAt(fs0, AfterPrefix(arg)).exists

\* the statuses the worker writes, in the order of the lifecycle
StatusRank(st) == IF st = "Received" THEN 0 ELSE 1

SecretUriConsumed ==
    /\ StartsWith(arg, "secret://")
    /\ connection_params # PyNone
    /\ ~FileAt(fs, AfterPrefix(arg)).exists

\* C26: the broker URI is resolved at most once per process: a reconnect reuses
\* the cached parameters and never reads the sensitive source again, so a URI
\* taken from a one-shot secret:// file does not make a later reconnect fail.
C26_UriResolvedOnce ==
    /\ fetches <= 1
    /\ rpc # "idle" => (fetches = 1 /\ connGen = 0)
    /\ connGen > 0 => (connection_params # PyNone /\ connection_params.v # <<>>)
    /\ (connGen > 0 /\ exc # "none") => exc = "AMQPInvalidArgument"

C26_Witness ==
    /\ SecretUriConsumed
    /\ faults > 0
    /\ conn = 2
    /\ fetches = 1

\* C22: when an operator interrupt arrives while a delivery is being handled,
\* the handling runs to its outcome, an ack or a reject, before the consume
\* channel is stopped and the connection closed; the process then ends with an
\* exit code that is neither 1 nor 2.
C22_InterruptAfterOutcome ==
    (exc = "KeyboardInterrupt" /\ nDeliv > 0) =>
        /\ AckIdx \cup OpIdx("reject") # {}
        /\ exitcode \notin {1, 2}

\* process_request is running: the callback was entered and its finally clause
\* has not completed
Handling ==
    pc \notin {"start", "fetch_args", "connect_empty", "consuming", "consume_except",
               "consume_interrupt", "fatal", "exited"}

\* C23: while a delivery is handled the ambient correlation id is the
\* delivery's; once the handler has returned or raised, on every path (empty
\* content, success, RejectMessage, FromUser, malformed JSON, another exception,
\* an exception inside an error handler), and whenever no delivery is handled,
\* it is None.
C23_AmbientCid ==
    /\ Handling => cid = msg.correlation_id
    /\ ~Handling => cid = NoCid
\* the handler was left by an exception raised inside `except Exception`,
\* for a delivery that had a correlation id
C23_Witness ==
    /\ pc = "fatal"
    /\ exc = "TypeError"
    /\ msg.correlation_id # NoCid
    /\ cid = NoCid

\* settlements of the delivery handled last
SettleIdx == AckIdx \cup OpIdx("reject")

\* C24: every delivery is settled exactly once: when its handling is over it
\* was acked or rejected, never both and never twice.
C24_SettledExactlyOnce ==
    Finished => Cardinality(SettleIdx) = 1

\* a step of AMQPConnection.consume that issues basic.qos on self.pull_channel:
\* the loop had a consume channel after connect() and either went on to
\* start_consuming or caught the transport error of the operation
QosStep ==
    /\ pc = "start"
    /\ pc' \in {"consuming", "consume_except"}
    /\ pull_channel' # 0
\* a step that sends a message on self.pub_channel
PublishStep ==
    \E i \in DOMAIN log' : i > Len(log) /\ log'[i].op = "publish"

\* C25: every operation on the consume channel (qos, basic.consume,
\* start_consuming) and on the publish channel (publish) is issued on a channel
\* of the connection that is open at that moment, never on a channel of a
\* connection that was closed before.
C25_ChannelsOfOpenConnection ==
    [][/\ QosStep => pull_channel' = conn'
       /\ PublishStep => pub_channel' = conn']_vars

\* C27: every message published while a delivery is handled (progress,
\* user-error, system-error and malformed-JSON messages) carries the correlation
\* id of that delivery, never another one and never an empty one; a publish
\* without a correlation id publishes nothing.
C27_PublishesCarryDeliveryCid ==
    \A i \in PublishIdx :
        /\ log[i].correlation_id = msg.correlation_id
        /\ log[i].correlation_id # NoCid

====
